---- MODULE Spec2Model ----
(***************************************************************************)
(* Model of utils/utils.py: the edge colour table, visualize and           *)
(* keep_aspect_ratio_resizer.  A behaviour is one call of one of the two   *)
(* functions.  Python floats are IEEE-754 binary64 values, modelled bit    *)
(* by bit (53-bit significand, round to nearest, ties to even).            *)
(***************************************************************************)
EXTENDS Integers, Sequences, FiniteSets

(* ---------------------------------------------------------------------- *)
(* binary64 arithmetic used by lines 96, 98, 102, 104                      *)
(* ---------------------------------------------------------------------- *)

\* number of significand bits of a Python float
MantBits == 53

RECURSIVE Pow2(_)
\* 2^k by repeated squaring
Pow2(k) ==
    IF k = 0 THEN 1
    ELSE LET hf == Pow2(k \div 2)
         IN  IF k % 2 = 0 THEN hf * hf ELSE 2 * hf * hf

RECURSIVE Pow2Mod(_, _)
\* 2^k mod d by repeated squaring
Pow2Mod(k, d) ==
    IF k = 0 THEN 1 % d
    ELSE LET hf == Pow2Mod(k \div 2, d)
         IN  IF k % 2 = 0 THEN (hf * hf) % d ELSE (2 * hf * hf) % d

RECURSIVE BitsToInt(_)
\* the integer written by a bit sequence, most significant bit first
BitsToInt(bits) ==
    IF Len(bits) = 0 THEN 0
    ELSE IF Len(bits) = 1 THEN bits[1]
    ELSE LET mid == Len(bits) \div 2
             lo  == SubSeq(bits, mid + 1, Len(bits))
         IN  BitsToInt(SubSeq(bits, 1, mid)) * Pow2(Len(lo)) + BitsToInt(lo)

RECURSIVE BitLength(_)
\* the number of binary digits of a natural number (0 has none)
BitLength(n) == IF n = 0 THEN 0 ELSE 1 + BitLength(n \div 2)

\* n as exactly width binary digits, most significant first
FixedBits(n, width) == [i \in 1..width |-> (n \div Pow2(width - i)) % 2]

\* the binary digits of a natural number without leading zeros
IntToBits(n) == FixedBits(n, BitLength(n))

\* bits + 1 on a fixed-width bit sequence; an all-ones input wraps to zeros
Increment(bits) ==
    LET zeros == {i \in 1..Len(bits) : bits[i] = 0}
        last  == IF zeros = {} THEN 0
                 ELSE CHOOSE i \in zeros : \A j \in zeros : j <= i
    IN  [i \in 1..Len(bits) |->
            IF i < last THEN bits[i] ELSE IF i = last THEN 1 ELSE 0]

\* round a significand up by one unit in the last place, renormalising
\* when the carry runs out of the top bit
RoundUp(f) ==
    LET inc == Increment(f.mant)
    IN  IF inc[1] = 0
        THEN [mant |-> <<1>> \o SubSeq(inc, 1, Len(inc) - 1), exp |-> f.exp + 1]
        ELSE [mant |-> inc, exp |-> f.exp]

RECURSIVE Normalize(_, _, _)
\* scale numerator or denominator by powers of two until d <= n < 2d
Normalize(n, d, e) ==
    IF n < d THEN Normalize(2 * n, d, e - 1)
    ELSE IF n >= 2 * d THEN Normalize(n, 2 * d, e + 1)
    ELSE [n |-> n, d |-> d, e |-> e]

\* long division of n/d with d <= n < 2d: the remainder left after k
\* quotient bits behind the leading one is (n * 2^k) mod d
DivRem(n, d, k) == (n * Pow2Mod(k, d)) % d

\* the first k + 1 quotient bits of n/d with d <= n < 2d
DivBits(n, d, k) ==
    [i \in 1..(k + 1) |->
        IF i = 1 THEN 1 ELSE (2 * DivRem(n, d, i - 2)) \div d]

\* Python's int / int for positive operands: the binary64 nearest to n/d.
\* A float is [mant, exp] with value BitsToInt(mant) * 2^exp, mant[1] = 1.
TrueDiv(n, d) ==
    LET nz   == Normalize(n, d, 0)
        bits == DivBits(nz.n, nz.d, MantBits - 1)
        rem  == DivRem(nz.n, nz.d, MantBits - 1)
        f    == [mant |-> bits, exp |-> nz.e - (MantBits - 1)]
        up   == \/ 2 * rem > nz.d
                \/ 2 * rem = nz.d /\ bits[MantBits] = 1
    IN  IF up THEN RoundUp(f) ELSE f

\* the exact product of a 53-bit sequence and a natural number below 2^12,
\* as bits: schoolbook multiplication over three limbs with carries
MulBits(bits, w) ==
    LET LimbBits == 18
        top  == Len(bits) - 2 * LimbBits
        a    == BitsToInt(SubSeq(bits, 1, top))
        b    == BitsToInt(SubSeq(bits, top + 1, top + LimbBits))
        c    == BitsToInt(SubSeq(bits, top + LimbBits + 1, Len(bits)))
        base == Pow2(LimbBits)
        p0   == w * c
        p1   == w * b + p0 \div base
        p2   == w * a + p1 \div base
    IN  IntToBits(p2) \o FixedBits(p1 % base, LimbBits)
                      \o FixedBits(p0 % base, LimbBits)

\* Python's int * float for a positive int that a float holds exactly:
\* the exact product rounded to 53 bits, ties to even
IntTimesFloat(w, f) ==
    LET p     == MulBits(f.mant, w)
        extra == Len(p) - MantBits
        kept  == [mant |-> SubSeq(p, 1, MantBits), exp |-> f.exp + extra]
        guard == extra > 0 /\ p[MantBits + 1] = 1
        stick == \E i \in (MantBits + 2)..Len(p) : p[i] = 1
        up    == guard /\ (stick \/ p[MantBits] = 1)
    IN  IF up THEN RoundUp(kept) ELSE kept

\* math.ceil of a positive float below 2^31
Ceil(f) ==
    LET nint == MantBits + f.exp
        ip   == IF nint <= 0 THEN 0 ELSE BitsToInt(SubSeq(f.mant, 1, nint))
        from == IF nint < 0 THEN 1 ELSE nint + 1
        frac == \E i \in from..MantBits : f.mant[i] = 1
    IN  IF frac THEN ip + 1 ELSE ip

\* rounding down to a multiple of 32 instead of up
CeilTo32Floor(n) == (n \div 32) * 32

\* int(math.ceil(n / 32) * 32): n / 32 is a division by a power of two,
\* exact in binary64, so the ceiling is the integer ceiling
CeilTo32(n) == ((n + 31) \div 32) * 32

(* ---------------------------------------------------------------------- *)
(* KEYPOINT_EDGE_INDS_TO_COLOR, lines 9-28                                 *)
(* ---------------------------------------------------------------------- *)

PINK == <<147, 20, 255>>
CYAN == <<255, 255, 0>>
YELLOW == <<0, 255, 255>>

\* the key: value items of the dict display, in the order written
EdgeItems ==
    << [pair |-> <<0, 1>>,   color |-> PINK],
       [pair |-> <<0, 2>>,   color |-> CYAN],
       [pair |-> <<1, 3>>,   color |-> PINK],
       [pair |-> <<2, 4>>,   color |-> CYAN],
       [pair |-> <<0, 5>>,   color |-> PINK],
       [pair |-> <<0, 6>>,   color |-> CYAN],
       [pair |-> <<5, 7>>,   color |-> PINK],
       [pair |-> <<7, 9>>,   color |-> PINK],
       [pair |-> <<6, 8>>,   color |-> CYAN],
       [pair |-> <<8, 10>>,  color |-> CYAN],
       [pair |-> <<5, 6>>,   color |-> YELLOW],
       [pair |-> <<5, 11>>,  color |-> PINK],
       [pair |-> <<6, 12>>,  color |-> CYAN],
       [pair |-> <<11, 12>>, color |-> YELLOW],
       [pair |-> <<11, 13>>, color |-> PINK],
       [pair |-> <<13, 15>>, color |-> PINK],
       [pair |-> <<12, 14>>, color |-> CYAN],
       [pair |-> <<14, 16>>, color |-> CYAN] >>

\* a Python dict display: a key written again keeps its first position and
\* takes the last value written for it.  The dict is the sequence of its
\* entries in iteration (insertion) order.
DictDisplay(items) ==
    LET firsts == SelectSeq([i \in 1..Len(items) |-> i],
                     LAMBDA i : \A j \in 1..(i - 1) : items[j].pair # items[i].pair)
        lastOf(i) == CHOOSE j \in 1..Len(items) :
                        /\ items[j].pair = items[i].pair
                        /\ \A k \in (j + 1)..Len(items) : items[k].pair # items[i].pair
    IN  [n \in 1..Len(firsts) |->
            [pair |-> items[firsts[n]].pair, color |-> items[lastOf(firsts[n])].color]]

\* the table with the key of its second item written as (0, 1) again
TableWithRepeatedKey ==
    DictDisplay([EdgeItems EXCEPT ![2] = [pair |-> <<0, 1>>, color |-> CYAN]])

KEYPOINT_EDGE_INDS_TO_COLOR == DictDisplay(EdgeItems)

(* ---------------------------------------------------------------------- *)
(* cv2 calls made by the two functions                                     *)
(* ---------------------------------------------------------------------- *)

\* An image is its shape and, for the pixel values, where the resampled
\* content sits in it: rows top..top+inner_rows-1, columns
\* left..left+inner_cols-1; every other pixel is border.
InputImage(height, width) ==
    [rows |-> height, cols |-> width, top |-> 0, left |-> 0,
     inner_rows |-> height, inner_cols |-> width]

\* cv2.resize(image, dsize): dsize is (width, height); the result has shape
\* (dsize[1], dsize[0]) and is content throughout
Resize(img, dsize) ==
    [rows |-> dsize[2], cols |-> dsize[1], top |-> 0, left |-> 0,
     inner_rows |-> dsize[2], inner_cols |-> dsize[1]]

\* cv2.copyMakeBorder(image, top, bottom, left, right, cv2.BORDER_CONSTANT)
\* with no value argument: a new image, the source copied at (top, left)
\* and the border filled with the default Scalar(), zero
CopyMakeBorder(img, top, bottom, left, right) ==
    [rows |-> top + img.rows + bottom, cols |-> left + img.cols + right,
     top |-> top, left |-> left,
     inner_rows |-> img.rows, inner_cols |-> img.cols]

\* the pixel at row r, column c: the resized image's pixel (row, col) it
\* was copied from, or the zero border value
PixelAt(img, r, c) ==
    IF /\ img.top <= r /\ r < img.top + img.inner_rows
       /\ img.left <= c /\ c < img.left + img.inner_cols
    THEN <<r - img.top, c - img.left>>
    ELSE <<-1, 0>>

\* cv2.circle(image, center, 2, color, 4), recorded with the person and
\* keypoint it was drawn for
Circle(person, i, center, color) ==
    [op |-> "circle", person |-> person, a |-> i, b |-> i,
     pt1 |-> center, pt2 |-> center, color |-> color, size |-> <<2, 4>>]

\* cv2.line(image, pt1, pt2, color, 2), recorded with the person and edge
Line(person, pair, pt1, pt2, color) ==
    [op |-> "line", person |-> person, a |-> pair[1], b |-> pair[2],
     pt1 |-> pt1, pt2 |-> pt2, color |-> color, size |-> <<2, 2>>]

(* ---------------------------------------------------------------------- *)
(* inputs                                                                  *)
(* ---------------------------------------------------------------------- *)

\* longest list_persons explored
MaxPersons == 2

\* image sides explored: 1, 11 and 25 * 2^k for k up to MaxDimExp
MaxDimExp == 3

Dims == {1, 11} \cup {25 * Pow2(k) : k \in 0..MaxDimExp}

TargetSizes == {100, 224, 256, 448}

\* scores are in hundredths: 5 is 0.05
KEYPOINT_THRESHOLD == 5
INSTANCE_THRESHOLD == 10
KEYPOINT_COLOR == <<0, 255, 0>>

PersonScores == {9, 10, 50}

\* a keypoint sequence with the given scores; keypoint i sits at (10i, 10i+1)
Keypoints(scores) ==
    [i \in 1..Len(scores) |->
        [score |-> scores[i], coordinate |-> <<10 * (i - 1), 10 * (i - 1) + 1>>]]

KeypointLayouts ==
    { [i \in 1..17 |-> 20],
      [i \in 1..17 |-> 5],
      [i \in 1..17 |-> IF i = 2 THEN 4 ELSE 20],
      [i \in 1..16 |-> 20],
      [i \in 1..16 |-> IF i = 15 THEN 5 ELSE 20],
      << >> }

Persons ==
    { [score |-> s, keypoints |-> Keypoints(l), bounding_box |-> <<0, 0, 0, 0>>] :
        s \in PersonScores, l \in KeypointLayouts }

PersonLists == UNION { [1..n -> Persons] : n \in 0..MaxPersons }

NoFloat == [mant |-> << >>, exp |-> 0]
NoPadding == [top |-> 0, bottom |-> 0, left |-> 0, right |-> 0]

(* ---------------------------------------------------------------------- *)
(* state                                                                   *)
(* ---------------------------------------------------------------------- *)

VARIABLES
    call,                \* which function this behaviour calls
    pc,                  \* position in it
    edge_table,          \* the module global KEYPOINT_EDGE_INDS_TO_COLOR
    \* visualize
    list_persons, keypoint_threshold, instance_threshold,
    p,                   \* index of the for loop over list_persons (0-based)
    draws,               \* the cv2 drawing calls made on image so far
    \* keep_aspect_ratio_resizer
    height, width, target_size,
    image, scale, target_height, target_width, padding, result

visVars == <<list_persons, keypoint_threshold, instance_threshold, p, draws>>
resVars == <<height, width, target_size, image, scale, target_height,
             target_width, padding, result>>
vars == <<call, pc, edge_table, visVars, resVars>>

InitVisualize ==
    /\ call = "visualize"
    /\ pc = "v_loop"
    /\ list_persons \in PersonLists
    /\ keypoint_threshold = KEYPOINT_THRESHOLD
    /\ instance_threshold = INSTANCE_THRESHOLD
    /\ p = 0
    /\ draws = << >>
    /\ height = 1 /\ width = 1 /\ target_size = 1
    /\ image = InputImage(1, 1)
    /\ scale = NoFloat
    /\ target_height = 0 /\ target_width = 0
    /\ padding = NoPadding
    /\ result = <<0, 0>>

InitResizer ==
    /\ call = "resizer"
    /\ pc = "r_entry"
    /\ height \in Dims /\ width \in Dims
    /\ target_size \in TargetSizes
    /\ image = InputImage(height, width)
    /\ scale = NoFloat
    /\ target_height = 0 /\ target_width = 0
    /\ padding = NoPadding
    /\ result = <<0, 0>>
    /\ list_persons = << >>
    /\ keypoint_threshold = KEYPOINT_THRESHOLD
    /\ instance_threshold = INSTANCE_THRESHOLD
    /\ p = 0
    /\ draws = << >>

Init ==
    /\ edge_table = KEYPOINT_EDGE_INDS_TO_COLOR
    /\ (InitVisualize \/ InitResizer)

(* ---------------------------------------------------------------------- *)
(* keep_aspect_ratio_resizer, lines 77-121                                 *)
(* ---------------------------------------------------------------------- *)

\* line 95
TallerThanWide(ht, wd) == ht > wd

\* lines 96-100: the height > width branch
ResizeTall ==
    /\ pc = "r_entry"
    /\ TallerThanWide(height, width)
    /\ LET sc           == TrueDiv(target_size, height)
           scaled_width == Ceil(IntTimesFloat(width, sc))
       IN  /\ scale' = sc
           /\ target_height' = target_size
           /\ image' = Resize(image, <<scaled_width, target_size>>)
           /\ target_width' = CeilTo32(scaled_width)
    /\ pc' = "r_resized"
    /\ UNCHANGED <<call, edge_table, visVars, height, width, target_size,
                   padding, result>>

\* lines 102-106: the else branch (width >= height)
ResizeWide ==
    /\ pc = "r_entry"
    /\ ~TallerThanWide(height, width)
    /\ LET sc            == TrueDiv(target_size, width)
           scaled_height == Ceil(IntTimesFloat(height, sc))
       IN  /\ scale' = sc
           /\ target_width' = target_size
           /\ image' = Resize(image, <<target_size, scaled_height>>)
           /\ target_height' = CeilTo32(scaled_height)
    /\ pc' = "r_resized"
    /\ UNCHANGED <<call, edge_table, visVars, height, width, target_size,
                   padding, result>>

\* the border put at the top and left instead of the bottom and right
PaddingsTopLeft(img, th, tw) ==
    [top |-> th - img.rows, left |-> tw - img.cols, bottom |-> 0, right |-> 0]

\* lines 108-110: the four border widths
Paddings(img, th, tw) ==
    [top |-> 0, left |-> 0, bottom |-> th - img.rows, right |-> tw - img.cols]

\* lines 108-119
Pad ==
    /\ pc = "r_resized"
    /\ LET pd == Paddings(image, target_height, target_width)
       IN  /\ padding' = pd
           /\ image' = CopyMakeBorder(image, pd.top, pd.bottom, pd.left, pd.right)
    /\ pc' = "r_padded"
    /\ UNCHANGED <<call, edge_table, visVars, height, width, target_size,
                   scale, target_height, target_width, result>>

\* line 121
ResizerReturn ==
    /\ pc = "r_padded"
    /\ result' = <<target_height, target_width>>
    /\ pc' = "r_returned"
    /\ UNCHANGED <<call, edge_table, visVars, height, width, target_size,
                   image, scale, target_height, target_width, padding>>

(* ---------------------------------------------------------------------- *)
(* visualize, lines 31-74                                                  *)
(* ---------------------------------------------------------------------- *)

\* keypoints[i] with Python's 0-based index
KeypointAt(keypoints, i) == keypoints[i + 1]

\* whether keypoints[i] exists (i >= 0); otherwise IndexError
InRange(keypoints, i) == i < Len(keypoints)

\* the instance test with <= for <
PersonSkippedOrEqual(person, threshold) == person.score <= threshold

\* line 49
PersonSkipped(person, threshold) == person.score < threshold

\* line 57
LandmarkDrawn(kp, threshold) == kp.score >= threshold

\* the edge operand with >= for >
EndpointPassesOrEqual(kp, threshold) == kp.score >= threshold

\* lines 63-64, one operand of the `and`
EndpointPasses(kp, threshold) == kp.score > threshold

\* the edge test made only when both indices exist, skipping the edge
\* otherwise
EdgeTestGuarded(keypoints, pair, threshold) ==
    IF ~InRange(keypoints, pair[1]) \/ ~InRange(keypoints, pair[2]) THEN "skip"
    ELSE IF /\ EndpointPasses(KeypointAt(keypoints, pair[1]), threshold)
            /\ EndpointPasses(KeypointAt(keypoints, pair[2]), threshold)
         THEN "draw" ELSE "skip"

\* the edge test with its second operand left out
EdgeTestFirstOnly(keypoints, pair, threshold) ==
    IF ~InRange(keypoints, pair[1]) THEN "raise"
    ELSE IF ~EndpointPasses(KeypointAt(keypoints, pair[1]), threshold) THEN "skip"
    ELSE IF ~InRange(keypoints, pair[2]) THEN "raise"
    ELSE "draw"

\* lines 62-65 for one edge: "raise" when a lookup is out of range, the
\* second lookup being made only when the first operand is true
EdgeTest(keypoints, pair, threshold) ==
    IF ~InRange(keypoints, pair[1]) THEN "raise"
    ELSE IF ~EndpointPasses(KeypointAt(keypoints, pair[1]), threshold) THEN "skip"
    ELSE IF ~InRange(keypoints, pair[2]) THEN "raise"
    ELSE IF ~EndpointPasses(KeypointAt(keypoints, pair[2]), threshold) THEN "skip"
    ELSE "draw"

\* lines 56-58: the circles of one person, in loop order
LandmarkDraws(k, keypoints, threshold) ==
    LET idx  == [i \in 1..Len(keypoints) |-> i - 1]
        kept == SelectSeq(idx, LAMBDA i : LandmarkDrawn(KeypointAt(keypoints, i), threshold))
    IN  [n \in 1..Len(kept) |->
            Circle(k, kept[n], KeypointAt(keypoints, kept[n]).coordinate, KEYPOINT_COLOR)]

\* position in the table of the first edge whose test raises, or one past
\* the table's end
FirstRaise(table, keypoints, threshold) ==
    LET bad == {n \in 1..Len(table) : EdgeTest(keypoints, table[n].pair, threshold) = "raise"}
    IN  IF bad = {} THEN Len(table) + 1
        ELSE CHOOSE n \in bad : \A m \in bad : n <= m

\* the edge loop run over the table backwards
EdgeDrawsReversed(k, table, keypoints, threshold) ==
    LET stop == FirstRaise(table, keypoints, threshold)
        head == SubSeq(table, 1, stop - 1)
        back == [n \in 1..Len(head) |-> head[Len(head) + 1 - n]]
        kept == SelectSeq(back,
                    LAMBDA e : EdgeTest(keypoints, e.pair, threshold) = "draw")
    IN  [n \in 1..Len(kept) |->
            Line(k, kept[n].pair,
                 KeypointAt(keypoints, kept[n].pair[1]).coordinate,
                 KeypointAt(keypoints, kept[n].pair[2]).coordinate,
                 kept[n].color)]

\* lines 61-72: the lines of one person, in the table's iteration order, up
\* to the first edge whose test raises
EdgeDraws(k, table, keypoints, threshold) ==
    LET stop == FirstRaise(table, keypoints, threshold)
        kept == SelectSeq(SubSeq(table, 1, stop - 1),
                    LAMBDA e : EdgeTest(keypoints, e.pair, threshold) = "draw")
    IN  [n \in 1..Len(kept) |->
            Line(k, kept[n].pair,
                 KeypointAt(keypoints, kept[n].pair[1]).coordinate,
                 KeypointAt(keypoints, kept[n].pair[2]).coordinate,
                 kept[n].color)]

\* the person the for loop is at
Current == list_persons[p + 1]

\* lines 48-50: a person below instance_threshold
SkipPerson ==
    /\ pc = "v_loop"
    /\ p < Len(list_persons)
    /\ PersonSkipped(Current, instance_threshold)
    /\ p' = p + 1
    /\ UNCHANGED <<call, pc, edge_table, list_persons, keypoint_threshold,
                   instance_threshold, draws, resVars>>

\* lines 52-58
DrawLandmarks ==
    /\ pc = "v_loop"
    /\ p < Len(list_persons)
    /\ ~PersonSkipped(Current, instance_threshold)
    /\ draws' = draws \o LandmarkDraws(p, Current.keypoints, keypoint_threshold)
    /\ pc' = "v_edges"
    /\ UNCHANGED <<call, edge_table, list_persons, keypoint_threshold,
                   instance_threshold, p, resVars>>

\* lines 60-72, every lookup in range
DrawEdges ==
    /\ pc = "v_edges"
    /\ FirstRaise(edge_table, Current.keypoints, keypoint_threshold) > Len(edge_table)
    /\ draws' = draws \o EdgeDraws(p, edge_table, Current.keypoints, keypoint_threshold)
    /\ p' = p + 1
    /\ pc' = "v_loop"
    /\ UNCHANGED <<call, edge_table, list_persons, keypoint_threshold,
                   instance_threshold, resVars>>

\* lines 60-72, a lookup out of range: the lines before it are drawn and
\* IndexError leaves the function
EdgeIndexError ==
    /\ pc = "v_edges"
    /\ FirstRaise(edge_table, Current.keypoints, keypoint_threshold) <= Len(edge_table)
    /\ draws' = draws \o EdgeDraws(p, edge_table, Current.keypoints, keypoint_threshold)
    /\ pc' = "v_raised"
    /\ UNCHANGED <<call, edge_table, list_persons, keypoint_threshold,
                   instance_threshold, p, resVars>>

\* line 74
VisualizeReturn ==
    /\ pc = "v_loop"
    /\ p = Len(list_persons)
    /\ pc' = "v_returned"
    /\ UNCHANGED <<call, edge_table, visVars, resVars>>

Next ==
    \/ ResizeTall \/ ResizeWide \/ Pad \/ ResizerReturn
    \/ SkipPerson \/ DrawLandmarks \/ DrawEdges \/ EdgeIndexError
    \/ VisualizeReturn

Spec == Init /\ [][Next]_vars

(* ---------------------------------------------------------------------- *)
(* properties of keep_aspect_ratio_resizer                                 *)
(* ---------------------------------------------------------------------- *)

\* ceil(a / b) in exact arithmetic
ExactCeil(a, b) == (a + b - 1) \div b

\* the smallest multiple of 32 that is >= n
SmallestMultipleOf32(n) == CHOOSE m \in n..(n + 31) : m % 32 = 0

Returned == pc = "r_returned"

\* C1: the returned (target_height, target_width) and the shape of the
\* returned padded image are exact multiples of 32 in both axes.
C1_MultiplesOf32 ==
    Returned =>
        /\ result[1] % 32 = 0 /\ result[2] % 32 = 0
        /\ image.rows % 32 = 0 /\ image.cols % 32 = 0

\* C2 as stated: for height >= width, the square case included,
\* target_height = target_size and target_width is the smallest multiple of
\* 32 that is >= ceil(width * target_size / height).
C2_AsStated ==
    (Returned /\ height >= width) =>
        /\ result[1] = target_size
        /\ result[2] = SmallestMultipleOf32(ExactCeil(width * target_size, height))

\* C2 amended: for height > width strictly, target_height = target_size and
\* target_width is the smallest multiple of 32 that is >=
\* ceil(width * target_size / height), or 32 more than that when
\* width * target_size / height is itself an exact multiple of 32 and height
\* does not divide target_size (the rounded float product can land just
\* above the integer); a square image returns target_width = target_size.
C2_TallImage ==
    LET exact == ExactCeil(width * target_size, height)
    IN  /\ (Returned /\ height > width) =>
            /\ result[1] = target_size
            /\ \/ result[2] = SmallestMultipleOf32(exact)
               \/ /\ (width * target_size) % height = 0
                  /\ target_size % height # 0
                  /\ exact % 32 = 0
                  /\ result[2] = exact + 32
        /\ (Returned /\ height = width) => result[2] = target_size

C2_Witness ==
    /\ Returned /\ height = 200 /\ width = 100 /\ target_size = 224
    /\ result = <<224, 128>>

\* C3: for width > height, target_width = target_size and target_height is
\* the smallest multiple of 32 that is >= ceil(height * target_size / width);
\* a 100x200 image with target_size 256 yields (128, 256).
C3_WideImage ==
    (Returned /\ width > height) =>
        /\ result[2] = target_size
        /\ result[1] = SmallestMultipleOf32(ExactCeil(height * target_size, width))
        /\ (height = 100 /\ width = 200 /\ target_size = 256) => result = <<128, 256>>

\* rows and columns at the corners of the content region and of the image
EdgeRows == {0, image.inner_rows - 1, image.inner_rows, image.rows - 1} \cap 0..(image.rows - 1)
EdgeCols == {0, image.inner_cols - 1, image.inner_cols, image.cols - 1} \cap 0..(image.cols - 1)

\* C4: padding_top = padding_left = 0; padding_bottom = target_height -
\* resized_height >= 0 and padding_right = target_width - resized_width >= 0;
\* the resized content fills rows 0..resized_height-1 and columns
\* 0..resized_width-1 unchanged, every other pixel is zero, and the output
\* has shape (target_height, target_width).
C4_PaddingBottomRight ==
    pc \in {"r_padded", "r_returned"} =>
        /\ padding.top = 0 /\ padding.left = 0
        /\ padding.bottom = target_height - image.inner_rows /\ padding.bottom >= 0
        /\ padding.right = target_width - image.inner_cols /\ padding.right >= 0
        /\ image.rows = target_height /\ image.cols = target_width
        /\ \A r \in EdgeRows : \A c \in EdgeCols :
              PixelAt(image, r, c) =
                 IF r < target_height - padding.bottom /\ c < target_width - padding.right
                 THEN <<r, c>> ELSE <<-1, 0>>

C4_Witness ==
    /\ Returned /\ padding.bottom > 0 /\ padding.right = 0
    /\ PixelAt(image, image.rows - 1, 0) = <<-1, 0>>
    /\ PixelAt(image, image.inner_rows - 1, image.cols - 1) =
          <<image.inner_rows - 1, image.cols - 1>>

(* ---------------------------------------------------------------------- *)
(* properties of visualize and of the table                                *)
(* ---------------------------------------------------------------------- *)

\* the persons the for loop has finished with
Handled == 0..(p - 1)

PersonAt(k) == list_persons[k + 1]

HasCircle(k, i) ==
    \E n \in 1..Len(draws) :
        draws[n].op = "circle" /\ draws[n].person = k /\ draws[n].a = i

HasLine(k, pair) ==
    \E n \in 1..Len(draws) :
        /\ draws[n].op = "line" /\ draws[n].person = k
        /\ draws[n].a = pair[1] /\ draws[n].b = pair[2]

\* C5: for a person with score >= instance_threshold, a circle is drawn for
\* keypoint i iff keypoints[i].score >= keypoint_threshold, and a line for a
\* table edge (a, b) iff both endpoint scores are > keypoint_threshold.
C5_DrawnIffThreshold ==
    \A k \in Handled :
        LET kps == PersonAt(k).keypoints
        IN  PersonAt(k).score >= instance_threshold =>
              /\ \A i \in 0..(Len(kps) - 1) :
                    HasCircle(k, i) <=> KeypointAt(kps, i).score >= keypoint_threshold
              /\ \A n \in 1..Len(edge_table) :
                    LET e == edge_table[n].pair
                    IN  (InRange(kps, e[1]) /\ InRange(kps, e[2])) =>
                          (HasLine(k, e) <=>
                             /\ KeypointAt(kps, e[1]).score > keypoint_threshold
                             /\ KeypointAt(kps, e[2]).score > keypoint_threshold)

\* a handled person whose 17 keypoints all score exactly keypoint_threshold:
\* all circles, no line
C5_Witness ==
    /\ pc = "v_returned"
    /\ \E k \in Handled :
          /\ PersonAt(k).score >= instance_threshold
          /\ Len(PersonAt(k).keypoints) = 17
          /\ \A i \in 0..16 :
                /\ KeypointAt(PersonAt(k).keypoints, i).score = keypoint_threshold
                /\ HasCircle(k, i)
          /\ ~HasLine(k, <<0, 1>>)

\* C6: nothing is ever drawn for a person whose score is < instance_threshold;
\* a person whose score equals instance_threshold is processed; with an
\* empty list or all persons below the threshold the image comes back
\* unchanged.
C6_InstanceThreshold ==
    /\ \A n \in 1..Len(draws) :
          PersonAt(draws[n].person).score >= instance_threshold
    /\ \A k \in Handled :
          PersonAt(k).score = instance_threshold =>
             \A i \in 0..(Len(PersonAt(k).keypoints) - 1) :
                KeypointAt(PersonAt(k).keypoints, i).score >= keypoint_threshold
                   => HasCircle(k, i)
    /\ (/\ pc = "v_returned"
        /\ \A k \in 0..(Len(list_persons) - 1) :
              PersonAt(k).score < instance_threshold)
          => draws = << >>

\* a returned call on a two-person list: the first below the threshold with
\* high keypoints and nothing drawn, the second exactly at it and drawn
C6_Witness ==
    /\ pc = "v_returned" /\ Len(list_persons) = 2
    /\ PersonAt(0).score < instance_threshold
    /\ Len(PersonAt(0).keypoints) = 17
    /\ KeypointAt(PersonAt(0).keypoints, 0).score > keypoint_threshold
    /\ PersonAt(1).score = instance_threshold
    /\ HasCircle(1, 0) /\ ~HasCircle(0, 0)

\* C7 as stated: visualize does not return when any person of the list has
\* fewer than 17 keypoints.
C7_AsStated ==
    (\E k \in 0..(Len(list_persons) - 1) : Len(PersonAt(k).keypoints) < 17)
        => pc # "v_returned"

\* a person whose edge lookups go out of range: not skipped, and some table
\* edge (a, b) has a out of range, or keypoints[a].score > keypoint_threshold
\* and b out of range
LookupFails(person) ==
    /\ person.score >= instance_threshold
    /\ \E n \in 1..Len(edge_table) :
          LET e == edge_table[n].pair
          IN  \/ e[1] >= Len(person.keypoints)
              \/ /\ e[2] >= Len(person.keypoints)
                 /\ KeypointAt(person.keypoints, e[1]).score > keypoint_threshold

\* C7 amended: visualize does not return when some person with score >=
\* instance_threshold has fewer than 17 keypoints and an edge lookup of that
\* person goes out of range (first index out of range, or second index out
\* of range with the first endpoint's score > keypoint_threshold); and when
\* it raises, the person it was at is such a person.
C7_FailsOnLookup ==
    /\ (\E k \in 0..(Len(list_persons) - 1) :
           Len(PersonAt(k).keypoints) < 17 /\ LookupFails(PersonAt(k)))
         => pc # "v_returned"
    /\ pc = "v_raised" =>
         Len(PersonAt(p).keypoints) < 17 /\ LookupFails(PersonAt(p))

\* the call raised at a 16-keypoint person, after drawing its circles
C7_Witness ==
    /\ pc = "v_raised"
    /\ Len(PersonAt(p).keypoints) = 16
    /\ HasCircle(p, 15) /\ HasLine(p, <<12, 14>>)

\* C8: the table has exactly 18 entries, every key is a pair of two distinct
\* indices in 0..16, no unordered pair appears twice, and neither function
\* modifies it.
C8_EdgeTable ==
    /\ Len(edge_table) = 18
    /\ \A n \in 1..Len(edge_table) :
          LET e == edge_table[n].pair
          IN  /\ e[1] \in 0..16 /\ e[2] \in 0..16 /\ e[1] # e[2]
              /\ \A m \in 1..Len(edge_table) :
                    m # n => {edge_table[m].pair[1], edge_table[m].pair[2]} # {e[1], e[2]}
    /\ edge_table = KEYPOINT_EDGE_INDS_TO_COLOR

\* a returned visualize call that walked the table to its last edge and
\* drew it, the table still whole
C8_Witness ==
    /\ pc = "v_returned" /\ HasLine(0, <<14, 16>>)
    /\ Len(edge_table) = 18

\* position of an edge in the table's iteration order (0 when absent)
TablePos(pair) ==
    IF \E n \in 1..Len(edge_table) : edge_table[n].pair = pair
    THEN CHOOSE n \in 1..Len(edge_table) : edge_table[n].pair = pair
    ELSE 0

\* where a draw belongs in the order: person, circles before lines,
\* keypoint index or table position
DrawKey(d) ==
    IF d.op = "circle" THEN <<d.person, 0, d.a>>
    ELSE <<d.person, 1, TablePos(<<d.a, d.b>>)>>

LexLess(x, y) ==
    \/ x[1] < y[1]
    \/ x[1] = y[1] /\ x[2] < y[2]
    \/ x[1] = y[1] /\ x[2] = y[2] /\ x[3] < y[3]

\* C9: draws are emitted person by person in list order; within a person the
\* circles (by increasing keypoint index) precede the lines; the lines follow
\* the table's declaration order, each with its edge's table colour.
C9_DrawOrder ==
    /\ \A n \in 1..(Len(draws) - 1) :
          LexLess(DrawKey(draws[n]), DrawKey(draws[n + 1]))
    /\ \A n \in 1..Len(draws) :
          draws[n].op = "line" =>
             /\ TablePos(<<draws[n].a, draws[n].b>>) > 0
             /\ draws[n].color = edge_table[TablePos(<<draws[n].a, draws[n].b>>)].color

\* two persons both drawn: the last draw of the first is its (14, 16) line,
\* the first draw of the second is its keypoint-0 circle, and (0, 5) comes
\* after (2, 4) as in the table
C9_Witness ==
    /\ pc = "v_returned"
    /\ \E n \in 1..(Len(draws) - 1) :
          /\ draws[n].person = 0 /\ draws[n].op = "line"
          /\ draws[n].a = 14 /\ draws[n].b = 16
          /\ draws[n + 1].person = 1 /\ draws[n + 1].op = "circle"
          /\ draws[n + 1].a = 0
    /\ \E n \in 1..(Len(draws) - 1) :
          /\ draws[n].op = "line" /\ draws[n].a = 2 /\ draws[n].b = 4
          /\ draws[n + 1].op = "line" /\ draws[n + 1].a = 0 /\ draws[n + 1].b = 5

\* C10: when a line (a, b) is drawn for a person, circles for keypoints a
\* and b of that person were drawn before it in the same call.
C10_LineEndsAtCircles ==
    \A n \in 1..Len(draws) :
        draws[n].op = "line" =>
           /\ \E m \in 1..(n - 1) :
                 /\ draws[m].op = "circle" /\ draws[m].person = draws[n].person
                 /\ draws[m].a = draws[n].a
           /\ \E m \in 1..(n - 1) :
                 /\ draws[m].op = "circle" /\ draws[m].person = draws[n].person
                 /\ draws[m].a = draws[n].b

\* a person with one keypoint below the threshold: its lines are drawn
\* except the ones ending there
C10_Witness ==
    /\ pc = "v_returned"
    /\ \E k \in Handled :
          /\ HasLine(k, <<0, 2>>) /\ HasCircle(k, 0) /\ HasCircle(k, 2)
          /\ ~HasLine(k, <<0, 1>>) /\ ~HasCircle(k, 1)

====
